---- MODULE Spec2Model ----
(***************************************************************************)
(* EduWrite (src/app.py): a Flask application over a MongoDB store.        *)
(* The model covers the users / usage / logins collections, the client     *)
(* held session cookie, the UTC calendar day, and the request handlers     *)
(* login, logout, register, home, history, login_history and generate.     *)
(* A handler that touches the store more than once is split at its store   *)
(* operations (and at the external AI call), so that requests served by    *)
(* different worker threads interleave exactly where they can in the code. *)
(***************************************************************************)
EXTENDS Integers, Sequences, FiniteSets, Bags, TLC

\* ---------------------------------------------------------------- bounds
MaxRequests == 3      \* requests the clients send in one run
MaxDay == 1           \* UTC calendar days the clock can advance
MaxInitCredits == 1   \* largest balance of a persisted admin record at start-up
MaxMarks == 2         \* trailing '?' / '!' marks appended to a classifier input

\* ---------------------------------------------------------------- config
DAILY_CREDITS == 50000

Clients == {"c1", "c2"}
Days == 0..MaxDay
NoUser == 0

\* ------------------------------------------------------- strings (as tuples)
Whitespace == {" ", "\t", "\n"}

LowerMap ==
    [A |-> "a", B |-> "b", C |-> "c", D |-> "d", E |-> "e", F |-> "f", G |-> "g",
     H |-> "h", I |-> "i", J |-> "j", K |-> "k", L |-> "l", M |-> "m", N |-> "n",
     O |-> "o", P |-> "p", Q |-> "q", R |-> "r", S |-> "s", T |-> "t", U |-> "u",
     V |-> "v", W |-> "w", X |-> "x", Y |-> "y", Z |-> "z"]

\* str.lower()
Lower(s) ==
    [i \in 1..Len(s) |-> IF s[i] \in DOMAIN LowerMap THEN LowerMap[s[i]] ELSE s[i]]

RECURSIVE LStrip(_, _)
LStrip(s, cs) ==
    IF s # <<>> /\ Head(s) \in cs THEN LStrip(Tail(s), cs) ELSE s

RECURSIVE RStrip(_, _)
RStrip(s, cs) ==
    IF s # <<>> /\ s[Len(s)] \in cs THEN RStrip(SubSeq(s, 1, Len(s) - 1), cs) ELSE s

\* str.strip(chars): every leading and every trailing character of cs goes
StripChars(s, cs) == RStrip(LStrip(s, cs), cs)

\* str.strip()
Strip(s) == StripChars(s, Whitespace)

greetings ==
    { <<"h","i">>,
      <<"h","e","l","l","o">>,
      <<"h","e","y">>,
      <<"h","o","w"," ","a","r","e"," ","y","o","u">>,
      <<"h","i"," ","t","h","e","r","e">>,
      <<"h","e","l","l","o"," ","t","h","e","r","e">>,
      <<"g","o","o","d"," ","m","o","r","n","i","n","g">>,
      <<"g","o","o","d"," ","a","f","t","e","r","n","o","o","n">>,
      <<"g","o","o","d"," ","e","v","e","n","i","n","g">> }

\* topic = data.get("topic", "").strip()
ParseTopic(raw) == Strip(raw)

\* clean_topic = topic.lower().strip().strip('?').strip('!')
clean_topic(topic) == StripChars(StripChars(Strip(Lower(topic)), {"?"}), {"!"})

\* if clean_topic in greetings
IsGreeting(topic) == clean_topic(topic) \in greetings

GREETING_RESPONSE == "Hi! I am EduWrite, your personal AI assistant."
AI_FALLBACK == "AI service not configured."
AI_TEXT == "result.content"

\* ------------------------------------------------------------- credentials
\* werkzeug's hash is an opaque one-way function of the password
generate_password_hash(p) == <<"hash", p>>

check_password_hash(h, p) == h = generate_password_hash(p)

\* User.check_password
check_password(user, password) == check_password_hash(user.password_hash, password)

Usernames == {"admin", "alice"}
Passwords == {"admin", "pw"}

\* ------------------------------------------------------------------- state
VARIABLES
    db,         \* "eduwrite" when the start-up ping succeeded, "None" otherwise
    users,      \* db.users, in insertion order; a document's _id is its position
    usage,      \* db.usage
    logins,     \* db.logins
    session,    \* the session cookie each client holds
    today,      \* the UTC calendar day of datetime.now / datetime.utcnow
    reqs,       \* bag of requests in flight (one per worker thread)
    resp,       \* the response the last step sent, NoResp when it sent none
    resets,     \* history: reset writes applied, per user and stamped day
    verified,   \* history: the user a client proved the password of, 0 after logout
    sent,       \* requests dispatched so far
    cls         \* the greeting classifier run on its own: input and verdict

vars == <<db, users, usage, logins, session, today, reqs, resp, resets, verified, sent, cls>>

store == <<users, usage, logins>>

\* ------------------------------------------------------------- user model
NullUser ==
    [id |-> NoUser, username |-> "", password_hash |-> <<>>, credits |-> 0,
     created_at |-> 0, credits_last_reset |-> 0, is_admin |-> 0]

\* the document insert_one stores at registration and admin creation
NewUserDoc(name, password, admin, now) ==
    [username |-> name, password_hash |-> generate_password_hash(password),
     credits |-> DAILY_CREDITS, created_at |-> now, credits_last_reset |-> now,
     is_admin |-> admin]

\* User.__init__ on the document with _id = id
User(id) ==
    [id |-> id, username |-> users[id].username,
     password_hash |-> users[id].password_hash, credits |-> users[id].credits,
     created_at |-> users[id].created_at,
     credits_last_reset |-> users[id].credits_last_reset,
     is_admin |-> users[id].is_admin]

\* db.users.find_one({"username": name}): the _id of the first match, or NoUser
FindByUsername(docs, name) ==
    IF \E i \in DOMAIN docs : docs[i].username = name
    THEN CHOOSE i \in DOMAIN docs :
            /\ docs[i].username = name
            /\ \A j \in DOMAIN docs : docs[j].username = name => i <= j
    ELSE NoUser

\* db.users.find_one({"_id": ObjectId(id)}) finds a document
UserExists(id) == id \in DOMAIN users

\* create_admin(), run once at import
create_admin(docs) ==
    IF FindByUsername(docs, "admin") = NoUser
    THEN Append(docs, NewUserDoc("admin", "admin", 1, 0))
    ELSE docs

\* the admin record a previous run of the application left in the store
PersistedAdmin(c) == [NewUserDoc("admin", "admin", 1, 0) EXCEPT !.credits = c]

\* (any balance in 0..DAILY_CREDITS is left behind by enough earlier requests)
InitialStores == {<<>>} \cup {<<PersistedAdmin(c)>> : c \in 0..MaxInitCredits}

\* ---------------------------------------------------------------- requests
NoSession == [user_id |-> NoUser, username |-> ""]

IdleReq ==
    [kind |-> "none", pc |-> "none", client |-> "", user |-> NullUser,
     topic |-> <<>>, username |-> "", password |-> "", now |-> 0,
     content |-> "", ai |-> "not_called", credits_read |-> 0,
     debited |-> FALSE, alone |-> TRUE]

NoResp ==
    [kind |-> "none", client |-> "", status |-> 0, content |-> "", location |-> "",
     has_credits_left |-> FALSE, credits_left |-> 0, uid |-> NoUser, topic |-> <<>>,
     loaded |-> FALSE, credits_read |-> 0, ai |-> "not_called",
     debited |-> FALSE, logged |-> FALSE, alone |-> TRUE, stored |-> 0]

InFlight == BagToSet(reqs)

Replace(old, new) == (reqs (-) SetToBag({old})) (+) SetToBag({new})

Finish(old) == reqs (-) SetToBag({old})

\* a request of user uid starts: those of that user already in flight are
\* no longer alone, and it is alone only when there is none
Share(uid) ==
    LET mark(r) == IF r.user.id = uid /\ uid # NoUser
                   THEN [r EXCEPT !.alone = FALSE] ELSE r
    IN BagOfAll(mark, reqs)

AloneAtStart(uid) == \A r \in InFlight : r.user.id # uid

\* a gate that lets every request through
login_required_open(sess) == TRUE

\* the login_required decorator lets the request through
login_required(sess) == sess.user_id # NoUser

Redirect(kind, c, where) ==
    [NoResp EXCEPT !.kind = kind, !.client = c, !.status = 302, !.location = where]

\* ==================================================================== Init
ClsIdle == [pc |-> "off", topic |-> <<>>, greeting |-> FALSE]

Init ==
    /\ db \in {"eduwrite", "None"}
    /\ users \in IF db = "eduwrite"
                 THEN {create_admin(s) : s \in InitialStores}
                 ELSE {<<>>}
    /\ usage = <<>>
    /\ logins = <<>>
    /\ session = [c \in Clients |-> NoSession]
    /\ today = 0
    /\ reqs = EmptyBag
    /\ resp = NoResp
    /\ resets = [u \in 1..(MaxRequests + 1) |-> [d \in Days |-> 0]]
    /\ sent = 0
    /\ verified = [c \in Clients |-> NoUser]
    /\ cls = ClsIdle

\* a client sends a request and a worker thread picks it up
Dispatch == sent < MaxRequests /\ sent' = sent + 1

\* midnight UTC passes
Tick ==
    /\ today < MaxDay
    /\ today' = today + 1
    /\ resp' = NoResp
    /\ UNCHANGED <<db, users, usage, logins, session, reqs, resets, verified, sent, cls>>

\* =================================================================== login
\* POST /login
login(c, username, password) ==
    /\ Dispatch
    /\ IF db = "None"
       THEN /\ resp' = [NoResp EXCEPT !.kind = "login", !.client = c, !.status = 503]
            /\ UNCHANGED <<logins, session, verified>>
       ELSE LET id == FindByUsername(users, username) IN
            IF id # NoUser /\ check_password(User(id), password)
            THEN /\ session' = [session EXCEPT ![c] =
                                   [user_id |-> id, username |-> users[id].username]]
                 /\ logins' = Append(logins,
                                [user_id |-> id, username |-> users[id].username,
                                 login_time |-> today])
                 /\ verified' = [verified EXCEPT ![c] =
                                   IF users[id].password_hash = <<"hash", password>>
                                   THEN id ELSE NoUser]
                 /\ resp' = [Redirect("login", c, "home") EXCEPT !.uid = id]
            ELSE /\ resp' = [NoResp EXCEPT !.kind = "login", !.client = c,
                                           !.status = 200,
                                           !.content = "Invalid credentials"]
                 /\ UNCHANGED <<logins, session, verified>>
    /\ UNCHANGED <<db, users, usage, today, reqs, resets, cls>>

\* GET /logout
logout(c) ==
    /\ Dispatch
    /\ session' = [session EXCEPT ![c] = NoSession]
    /\ verified' = [verified EXCEPT ![c] = NoUser]
    /\ resp' = Redirect("logout", c, "login")
    /\ UNCHANGED <<db, users, usage, logins, today, reqs, resets, cls>>

\* ================================================================ register
\* POST /register up to the find_one existence check
register(username, password) ==
    /\ Dispatch
    /\ IF db = "None"
       THEN /\ resp' = [NoResp EXCEPT !.kind = "register", !.status = 500]
            /\ UNCHANGED reqs
       ELSE IF FindByUsername(users, username) # NoUser
       THEN /\ resp' = [NoResp EXCEPT !.kind = "register", !.status = 200,
                                      !.content = "User already exists"]
            /\ UNCHANGED reqs
       ELSE /\ reqs' = reqs (+) SetToBag({[IdleReq EXCEPT !.kind = "register",
                                   !.pc = "insert", !.username = username,
                                   !.password = password]})
            /\ resp' = NoResp
    /\ UNCHANGED <<db, users, usage, logins, session, today, resets, verified, cls>>

\* POST /register: the insert_one and the redirect
register_insert(r) ==
    /\ r.kind = "register" /\ r.pc = "insert"
    /\ users' = Append(users, NewUserDoc(r.username, r.password, 0, today))
    /\ reqs' = Finish(r)
    /\ resp' = Redirect("register", "", "login")
    /\ UNCHANGED <<db, usage, logins, session, today, resets, verified, sent, cls>>

\* ==================================================================== home
\* last_reset = self.credits_last_reset or self.created_at
NoDate == -1

LastReset(user) ==
    IF user.credits_last_reset # NoDate THEN user.credits_last_reset
    ELSE user.created_at

\* if now.date() > last_reset.date()
ResetDue(now, user) == now > LastReset(user)

\* GET /home up to the find_one of the session's user
home(c) ==
    LET uid == session[c].user_id IN
    /\ Dispatch
    /\ IF ~login_required(session[c])
       THEN /\ resp' = Redirect("home", c, "login")
            /\ UNCHANGED reqs
       ELSE IF db = "None" \/ ~UserExists(uid)
       THEN /\ resp' = [NoResp EXCEPT !.kind = "home", !.client = c, !.status = 500]
            /\ UNCHANGED reqs
       ELSE /\ reqs' = Share(uid) (+) SetToBag({[IdleReq EXCEPT !.kind = "home",
                                   !.pc = "check", !.client = c, !.user = User(uid),
                                   !.credits_read = users[uid].credits,
                                   !.alone = AloneAtStart(uid)]})
            /\ resp' = NoResp
    /\ UNCHANGED <<db, users, usage, logins, session, today, resets, verified, cls>>

\* reset_credits_if_needed: reads the clock and compares the dates
home_check(r) ==
    /\ r.kind = "home" /\ r.pc = "check"
    /\ reqs' = Replace(r, [r EXCEPT !.now = today,
                                    !.pc = IF ResetDue(today, r.user)
                                           THEN "write" ELSE "list"])
    /\ resp' = NoResp
    /\ UNCHANGED <<db, users, usage, logins, session, today, resets, verified, sent, cls>>

\* reset_credits_if_needed: the update_one $set and self.credits
home_write(r) ==
    /\ r.kind = "home" /\ r.pc = "write"
    /\ users' = [users EXCEPT ![r.user.id].credits = DAILY_CREDITS,
                              ![r.user.id].credits_last_reset = r.now]
    /\ resets' = [resets EXCEPT ![r.user.id][r.now] = @ + 1]
    /\ reqs' = Replace(r, [r EXCEPT !.pc = "list",
                                    !.user.credits = DAILY_CREDITS])
    /\ resp' = NoResp
    /\ UNCHANGED <<db, usage, logins, session, today, verified, sent, cls>>

\* GET /home: the usage query and the rendered page
home_list(r) ==
    /\ r.kind = "home" /\ r.pc = "list"
    /\ reqs' = Finish(r)
    /\ resp' = [NoResp EXCEPT !.kind = "home", !.client = r.client, !.status = 200,
                              !.uid = r.user.id, !.loaded = TRUE,
                              !.credits_read = r.credits_read,
                              !.has_credits_left = TRUE,
                              !.credits_left = r.user.credits,
                              !.alone = r.alone,
                              !.stored = users[r.user.id].credits]
    /\ UNCHANGED <<db, users, usage, logins, session, today, resets, verified, sent, cls>>

\* GET /history and GET /login-history
history(c, kind) ==
    /\ Dispatch
    /\ resp' = IF ~login_required(session[c])
               THEN Redirect(kind, c, "login")
               ELSE IF db = "None"
               THEN [NoResp EXCEPT !.kind = kind, !.client = c, !.status = 500]
               ELSE [NoResp EXCEPT !.kind = kind, !.client = c, !.status = 200,
                                   !.uid = session[c].user_id]
    /\ UNCHANGED <<db, users, usage, logins, session, today, reqs, resets, verified, cls>>

\* ================================================================ generate
\* a gate that lets a balance of zero through
no_credits_strict(user) == user.credits < 0

\* if user.credits <= 0
no_credits(user) == user.credits <= 0

\* a greeting answer that reports the balance as if it had been debited
greeting_credits_left_debited(user) == user.credits - 1

\* "credits_left": user.credits on the greeting path
greeting_credits_left(user) == user.credits

\* the response of a generate request r that ends with the given status
GenResp(r, status) ==
    [NoResp EXCEPT !.kind = "generate", !.client = r.client, !.status = status,
                   !.uid = r.user.id, !.topic = r.topic, !.loaded = TRUE,
                   !.credits_read = r.credits_read, !.ai = r.ai,
                   !.debited = r.debited, !.alone = r.alone,
                   !.stored = users[r.user.id].credits]

Topics == { <<" ">>, <<"H","i","!">>, <<"m","a","t","h">> }

\* POST /api/generate up to the call of the AI client
generate(c, raw) ==
    LET uid == session[c].user_id
        topic == ParseTopic(raw)
        r == [IdleReq EXCEPT !.kind = "generate", !.pc = "ai", !.client = c,
                             !.topic = topic, !.alone = AloneAtStart(uid),
                             !.credits_read = IF UserExists(uid)
                                              THEN users[uid].credits ELSE 0,
                             !.user = IF UserExists(uid) THEN User(uid) ELSE NullUser]
    IN
    /\ Dispatch
    /\ IF ~login_required(session[c])
       THEN /\ resp' = Redirect("generate", c, "login")
            /\ UNCHANGED reqs
       ELSE IF topic = <<>>
       THEN /\ resp' = [NoResp EXCEPT !.kind = "generate", !.client = c,
                                      !.status = 400, !.uid = uid]
            /\ UNCHANGED reqs
       ELSE IF db = "None" \/ uid = NoUser
       THEN /\ resp' = [NoResp EXCEPT !.kind = "generate", !.client = c,
                                      !.status = 500, !.topic = topic]
            /\ UNCHANGED reqs
       ELSE IF ~UserExists(uid)
       THEN /\ resp' = [NoResp EXCEPT !.kind = "generate", !.client = c,
                                      !.status = 404, !.uid = uid, !.topic = topic]
            /\ UNCHANGED reqs
       ELSE IF no_credits(r.user)
       THEN /\ resp' = GenResp(r, 402)
            /\ UNCHANGED reqs
       ELSE IF IsGreeting(topic)
       THEN /\ resp' = [GenResp(r, 200) EXCEPT
                           !.content = GREETING_RESPONSE,
                           !.has_credits_left = TRUE,
                           !.credits_left = greeting_credits_left(r.user)]
            /\ UNCHANGED reqs
       ELSE /\ reqs' = Share(uid) (+) SetToBag({r})
            /\ resp' = NoResp
    /\ UNCHANGED <<db, users, usage, logins, session, today, resets, verified, cls>>

AIOutcomes == {"unconfigured", "ok", "raised"}

\* get_ai_client() and ai_client.invoke(messages)
generate_ai(r, outcome) ==
    /\ r.kind = "generate" /\ r.pc = "ai"
    /\ IF outcome = "raised"
       THEN /\ reqs' = Finish(r)
            /\ resp' = GenResp([r EXCEPT !.ai = outcome], 500)
       ELSE /\ reqs' = Replace(r, [r EXCEPT !.pc = "debit", !.ai = outcome,
                                     !.content = IF outcome = "ok" THEN AI_TEXT
                                                 ELSE AI_FALLBACK])
            /\ resp' = NoResp
    /\ UNCHANGED <<db, users, usage, logins, session, today, resets, verified, sent, cls>>

\* db.users.update_one({"_id": ...}, {"$inc": {"credits": -1}})
generate_debit(r) ==
    /\ r.kind = "generate" /\ r.pc = "debit"
    /\ users' = [users EXCEPT ![r.user.id].credits = @ - 1]
    /\ reqs' = Replace(r, [r EXCEPT !.pc = "ledger", !.debited = TRUE])
    /\ resp' = NoResp
    /\ UNCHANGED <<db, usage, logins, session, today, resets, verified, sent, cls>>

\* db.usage.insert_one(...) and the success response
generate_ledger(r) ==
    /\ r.kind = "generate" /\ r.pc = "ledger"
    /\ usage' = Append(usage, [user_id |-> r.user.id, topic |-> r.topic,
                               response |-> r.content, created_at |-> today])
    /\ reqs' = Finish(r)
    /\ resp' = [GenResp(r, 200) EXCEPT !.content = r.content, !.logged = TRUE,
                                       !.has_credits_left = TRUE,
                                       !.credits_left = r.user.credits - 1]
    /\ UNCHANGED <<db, users, logins, session, today, resets, verified, sent, cls>>

\* ==================================================================== Next
Next ==
    \/ Tick
    \/ \E c \in Clients, u \in Usernames, p \in Passwords : login(c, u, p)
    \/ \E c \in Clients : logout(c)
    \/ \E u \in Usernames : register(u, "pw")
    \/ \E r \in InFlight : register_insert(r)
    \/ \E c \in Clients : home(c)
    \/ \E r \in InFlight : home_check(r)
    \/ \E r \in InFlight : home_write(r)
    \/ \E r \in InFlight : home_list(r)
    \/ \E c \in Clients, k \in {"history", "login_history"} : history(c, k)
    \/ \E c \in Clients, raw \in Topics : generate(c, raw)
    \/ \E r \in InFlight, o \in AIOutcomes : generate_ai(r, o)
    \/ \E r \in InFlight : generate_debit(r)
    \/ \E r \in InFlight : generate_ledger(r)

Spec == Init /\ [][Next]_vars

\* ============================================== the classifier on its own
\* the greeting test of generate applied to a raw topic
classify(raw) == IsGreeting(ParseTopic(raw))

Upper(s) ==
    [i \in 1..Len(s) |->
        IF \E k \in DOMAIN LowerMap : LowerMap[k] = s[i]
        THEN CHOOSE k \in DOMAIN LowerMap : LowerMap[k] = s[i] ELSE s[i]]

Capitalised(s) == IF s = <<>> THEN s ELSE <<Upper(s)[1]>> \o Tail(s)

MarkSeqs == UNION {[1..n -> {"?", "!"}] : n \in 0..MaxMarks}

Words == greetings \cup { <<"m","a","t","h">>, <<"h","i","i">> }

ClassifierInputs ==
    { pad \o w \o m \o pad :
        pad \in {<<>>, <<" ">>},
        w \in UNION {{g, Upper(g), Capitalised(g)} : g \in Words},
        m \in MarkSeqs }

GreetInit ==
    /\ db = "None"
    /\ users = <<>>
    /\ usage = <<>>
    /\ logins = <<>>
    /\ session = [c \in Clients |-> NoSession]
    /\ today = 0
    /\ reqs = EmptyBag
    /\ resp = NoResp
    /\ resets = [u \in 1..(MaxRequests + 1) |-> [d \in Days |-> 0]]
    /\ verified = [c \in Clients |-> NoUser]
    /\ sent = 0
    /\ cls \in {[pc |-> "in", topic |-> t, greeting |-> FALSE] : t \in ClassifierInputs}

Classify ==
    /\ cls.pc = "in"
    /\ cls' = [cls EXCEPT !.pc = "out", !.greeting = classify(cls.topic)]
    /\ UNCHANGED <<db, users, usage, logins, session, today, reqs, resp, resets,
                   verified, sent>>

GreetNext == Classify

GreetSpec == GreetInit /\ [][GreetNext]_vars

\* ================================================================== claims
\* C1: every user's stored credits is >= 0 in every reachable state, whatever
\* the interleaving of register, /home and /api/generate requests.
C1_CreditsNonNegative == \A i \in DOMAIN users : users[i].credits >= 0

\* C2: reset_credits_if_needed leaves credits unchanged on the day of the last
\* reset and sets them to DAILY_CREDITS on a later day, and the reset write is
\* applied at most once per user and UTC calendar day.
C2_ResetOncePerDay ==
    /\ \A r \in InFlight :
          r.kind = "home" /\ r.pc = "list" =>
             /\ r.now > LastReset(r.user) => r.user.credits = DAILY_CREDITS
             /\ r.now = LastReset(r.user) => r.user.credits = r.credits_read
    /\ \A u \in DOMAIN resets : \A d \in Days : resets[u][d] <= 1

\* C3: an authenticated /api/generate request with a non-empty topic whose
\* user has credits <= 0 is answered 402 in the step that reads the user, and
\* that step changes neither the store nor the set of requests in flight, so
\* no debit, no Usage Record and no AI call follow from it.
C3_NoCreditsNoEffect ==
    [][\A c \in Clients, raw \in Topics :
          ( /\ generate(c, raw)
            /\ session[c].user_id # NoUser
            /\ db # "None"
            /\ ParseTopic(raw) # <<>>
            /\ UserExists(session[c].user_id)
            /\ users[session[c].user_id].credits <= 0 )
          => /\ resp'.kind = "generate" /\ resp'.status = 402
             /\ resp'.ai = "not_called" /\ ~resp'.debited /\ ~resp'.logged
             /\ users' = users /\ usage' = usage /\ reqs' = reqs]_vars

\* C3 witness: a request of a user with no credits was answered 402
C3_Witness ==
    /\ resp.kind = "generate" /\ resp.status = 402
    /\ resp.topic # <<>> /\ resp.credits_read = 0
    /\ users[resp.uid].credits = 0 /\ usage = <<>>

\* C4: a non-greeting request of a user with n > 0 credits and no concurrent
\* request of that user answers credits_left = n - 1, leaves n - 1 stored and
\* has appended one Usage Record (the newest) with the topic and the text
\* returned.
C4_DebitAndLedger ==
    ( /\ resp.kind = "generate" /\ resp.loaded /\ resp.alone
      /\ resp.credits_read > 0 /\ ~IsGreeting(resp.topic) )
    => /\ resp.status = 200
       /\ resp.has_credits_left /\ resp.credits_left = resp.credits_read - 1
       /\ resp.stored = resp.credits_read - 1
       /\ resp.logged /\ usage # <<>>
       /\ usage[Len(usage)].user_id = resp.uid
       /\ usage[Len(usage)].topic = resp.topic
       /\ usage[Len(usage)].response = resp.content

\* C5: a step that answers a greeting topic of an authenticated client changes
\* neither the store nor the requests in flight (no debit, no Usage Record, no
\* AI call), and a credits_left it returns is the stored balance.
C5_GreetingFrame ==
    [][\A c \in Clients, raw \in Topics :
          ( /\ generate(c, raw)
            /\ session[c].user_id # NoUser
            /\ db # "None"
            /\ UserExists(session[c].user_id)
            /\ IsGreeting(ParseTopic(raw)) )
          => /\ users' = users /\ usage' = usage /\ reqs' = reqs
             /\ resp'.kind = "generate" /\ resp'.ai = "not_called"
             /\ ~resp'.debited /\ ~resp'.logged
             /\ resp'.has_credits_left =>
                   resp'.credits_left = users[session[c].user_id].credits]_vars

\* C5 witness: a greeting was answered with the balance, nothing written
C5_Witness ==
    /\ resp.kind = "generate" /\ resp.status = 200 /\ IsGreeting(resp.topic)
    /\ resp.content = GREETING_RESPONSE
    /\ resp.has_credits_left /\ resp.credits_left = users[resp.uid].credits
    /\ usage = <<>>

\* C6: a greeting topic reaches the canned success answer for every balance
\* of the user and is never rejected with 402.
C6_GreetingBeforeGate ==
    ( resp.kind = "generate" /\ resp.loaded /\ IsGreeting(resp.topic) )
    => /\ resp.status = 200
       /\ resp.content = GREETING_RESPONSE
       /\ resp.has_credits_left /\ resp.credits_left = resp.stored

\* C7: when the AI client is not configured or its call raises, the request
\* still succeeds with the fallback placeholder, one debit and a Usage Record.
C7_FallbackOnAIFailure ==
    ( resp.kind = "generate" /\ resp.ai \in {"unconfigured", "raised"} )
    => /\ resp.status = 200
       /\ resp.content = AI_FALLBACK
       /\ resp.debited /\ resp.logged

\* C8: a listed greeting in any case followed by at most one '?' or '!'
\* classifies as a greeting, and followed by two or more marks it does not.
C8_OneTrailingMark ==
    cls.pc = "out" =>
       \A g \in greetings, m \in MarkSeqs :
          Lower(Strip(cls.topic)) = g \o m => (cls.greeting <=> Len(m) <= 1)

\* C9: a protected endpoint runs its body only for a client whose session
\* holds the user id a password check at POST /login established and no
\* /logout cleared; without it the answer is a redirect to login and the
\* store is unchanged; a failed login sets no identity and writes no record.
C9_Protected(c) ==
    \/ home(c)
    \/ \E raw \in Topics : generate(c, raw)
    \/ \E k \in {"history", "login_history"} : history(c, k)

C9_CredentialsHold(u, p) ==
    \E i \in DOMAIN users :
       users[i].username = u /\ users[i].password_hash = <<"hash", p>>

C9_SessionGate ==
    /\ [](\A c \in Clients :
            session[c].user_id # NoUser => verified[c] = session[c].user_id)
    /\ [](\A r \in InFlight :
            r.kind \in {"home", "generate"} =>
               r.user.id # NoUser /\ r.user.id \in DOMAIN users)
    /\ [][\A c \in Clients :
            /\ (C9_Protected(c) /\ session[c].user_id = NoUser)
                  => /\ resp'.status = 302 /\ resp'.location = "login"
                     /\ store' = store /\ reqs' = reqs /\ session' = session
            /\ \A u \in Usernames, p \in Passwords :
                  (login(c, u, p) /\ ~C9_CredentialsHold(u, p))
                  => /\ session' = session /\ logins' = logins
                     /\ resp'.status # 302]_vars

\* C9 witness: after a login and a logout a protected request is redirected
C9_Witness ==
    /\ resp.kind \in {"home", "generate", "history", "login_history"}
    /\ resp.status = 302 /\ resp.location = "login"
    /\ session[resp.client].user_id = NoUser
    /\ logins # <<>>

\* C10: no two documents of db.users share a username.
C10_UsernamesUnique ==
    \A i, j \in DOMAIN users : users[i].username = users[j].username => i = j

====
